---- MODULE Spec2Model ----
(***************************************************************************)
(* Model of cyw43/src/ioctl.rs: the single-slot ioctl rendezvous between   *)
(* the control (issuer) task and the runner (transport) task.              *)
(*                                                                         *)
(* IoctlState holds `state` (a Cell<IoctlStateInner>) and `wakers` (a      *)
(* RefCell<Wakers>).  The caller-owned byte buffers the raw pointers of    *)
(* Pending/Sent refer to are modelled by `mem`.  Two tasks use the object  *)
(* under a cooperative single-threaded executor: `pcI` is the position of  *)
(* the control task and `bufI` the buffer it lent to its last do_ioctl      *)
(* call, `pcT` the position of the runner task, `woken` the                *)
(* set of tasks whose waker has been invoked since their last poll.  What  *)
(* the last operation returned to its caller is last.ret.  `held` is the   *)
(* queue of the requests the runner task got from wait_pending and has not *)
(* yet answered: the chip answers them in order, so a call of ioctl_done   *)
(* carries the answer to the oldest of them.                               *)
(* `cur`, `nextReq`, `hist`, `stored`, `last` are history variables: they  *)
(* name the requests and record what each operation did; the program's own *)
(* conditions never read them.                                             *)
(***************************************************************************)
EXTENDS Integers, Sequences, FiniteSets, TLC

VARIABLES state, wakers, mem, woken, pcI, bufI, pcT, held,
          cur, nextReq, hist, stored, last

vars == <<state, wakers, mem, woken, pcI, bufI, pcT, held,
          cur, nextReq, hist, stored, last>>

(* ------------------------------ bounds --------------------------------- *)

\* number of do_ioctl calls one run may make
MaxReq == 2
\* caller buffers are numbered 1..NumBufs; buffer b is b bytes long
NumBufs == 2
\* longest response the transport passes to ioctl_done
MaxResp == 2

(* ------------------------------ values --------------------------------- *)

\* enum IoctlType
Get == 0
Set == 2
IoctlType == {Get, Set}

\* crate::consts::Ioctl command codes and interface indices
Cmds == {1, 7}
Ifaces == {0, 1}

\* the (kind, cmd, iface) arguments do_ioctl is called with
Calls == {<<Set, 1, 0>>, <<Get, 7, 1>>}

Bytes == {0, 9}
Bufs == 1..NumBufs
Reqs == 1..MaxReq

\* status codes carried by IoctlError::Status
ErrCodes == {-1, 5}

Min(a, b) == IF a <= b THEN a ELSE b

\* the responses passed to ioctl_done: of every length up to MaxResp, with
\* alternating bytes, so that each position takes both values
Alternating(n, first) == [i \in 1..n |-> IF i % 2 = 1 THEN first ELSE 9 - first]
Responses == {Alternating(n, first) : n \in 0..MaxResp, first \in Bytes}

\* Result<usize, IoctlError> and Result<(), IoctlError>
Ok(n) == [ok |-> TRUE, v |-> n]
Err(e) == [ok |-> FALSE, v |-> e]
OkUnit == Ok(0)
Outcomes == {OkUnit} \cup {Err(e) : e \in ErrCodes}

\* Option::None of a wake slot
None == "none"

\* an operation that returned nothing (or Poll::Pending)
NoRet == [none |-> TRUE]

\* the two tasks, named after the wake slot each one registers in
Control == "control"
Runner == "runner"

\* struct PendingIoctl
PendingIoctl(buf, kind, cmd, iface) ==
    [buf |-> buf, kind |-> kind, cmd |-> cmd, iface |-> iface]

\* enum IoctlStateInner
Pending(p) == [tag |-> "Pending", p |-> p]
Sent(buf) == [tag |-> "Sent", buf |-> buf]
Done(result) == [tag |-> "Done", result |-> result]

IsPending == state.tag = "Pending"
IsSent == state.tag = "Sent"
IsDone == state.tag = "Done"

(* --------------------------- wake registry ----------------------------- *)

\* WakerRegistration::register: the slot remembers the last registered waker
Register(slot, waker) == waker

\* WakerRegistration::wake: the slot is emptied ...
Taken(slot) == None

\* ... and the waker it held, if any, is invoked
Invoked(slot) == IF slot = None THEN {} ELSE {slot}

\* a slip: the runner's slot is woken instead of the control slot
wake_control_runner_slot ==
    /\ wakers' = [wakers EXCEPT !.runner = Taken(wakers.runner)]
    /\ woken' = woken \cup Invoked(wakers.runner)

wake_control ==
    /\ wakers' = [wakers EXCEPT !.control = Taken(wakers.control)]
    /\ woken' = woken \cup Invoked(wakers.control)

\* a slip: Poll::Pending is returned without the waker being kept
register_control_forgotten(waker) == UNCHANGED wakers

register_control(waker) ==
    wakers' = [wakers EXCEPT !.control = Register(wakers.control, waker)]

wake_runner ==
    /\ wakers' = [wakers EXCEPT !.runner = Taken(wakers.runner)]
    /\ woken' = woken \cup Invoked(wakers.runner)

\* a slip: the runner's waker is put in the control slot
register_runner_wrong_slot(waker) ==
    wakers' = [wakers EXCEPT !.control = Register(wakers.control, waker)]

register_runner(waker) ==
    wakers' = [wakers EXCEPT !.runner = Register(wakers.runner, waker)]

(* ------------------------- history variables --------------------------- *)

\* request r entered phase ph
Enter(h, r, ph) == [h EXCEPT ![r] = Append(@, ph)]

\* the request whose payload `state` holds (cur, 0 when there is none)
\* leaves the state for phase ph
Leave(h, ph) == IF cur = 0 THEN h ELSE Enter(h, cur, ph)

\* the request of the do_ioctl call the control task is in
reqI == nextReq - 1

\* no ioctl_done has stored a result since the last issue
NotStored == [req |-> 0, result |-> NoRet, buf |-> 0, prefix |-> <<>>, for |-> 0]

\* the request a call of ioctl_done answers (0: none is outstanding)
Answered == IF held = <<>> THEN 0 ELSE Head(held)

\* the part of a response that fits a buffer of length n
Fitting(response, n) == SubSeq(response, 1, IF Len(response) < n THEN Len(response) ELSE n)

(* ------------------------------- Init ---------------------------------- *)

\* a slip: a fresh instance reports a failure until a request completes
new_failed ==
    /\ state = Done(Err(-1))
    /\ wakers = [control |-> None, runner |-> None]


\* IoctlState::new; Wakers::new
new ==
    /\ state = Done(Ok(0))
    /\ wakers = [control |-> None, runner |-> None]

Init ==
    /\ new
    /\ mem = [b \in Bufs |-> [i \in 1..b |-> 0]]
    /\ woken = {}
    /\ pcI = "idle"
    /\ bufI = 0
    /\ pcT = "idle"
    /\ held = <<>>
    /\ cur = 0
    /\ nextReq = 1
    /\ hist = [r \in Reqs |-> <<>>]
    /\ stored = NotStored
    /\ last = [op |-> "new", pre |-> "Done", ret |-> NoRet, buf |-> 0]

(* ------------------------------ actions -------------------------------- *)

\* The executor is cooperative and single-threaded: a poll runs to its
\* return.  Between lines 136 and 137 of do_ioctl the control task is in
\* the middle of its poll and nothing else runs.
AtPollBoundary == pcI # "issued"

\* a slip: the length of the response alone
CopyLen_response(buf, response) == Len(response)

\* line 147
CopyLen(buf, response) == Min(Len(buf), Len(response))

\* line 148: buf[..len].copy_from_slice(&response[..len])
CopyFromSlice(buf, response, len) ==
    [i \in 1..Len(buf) |-> IF i <= len THEN response[i] ELSE buf[i]]

\* a slip: the error arm writes the response too
DoneBuf_always(buf, response, result) ==
    CopyFromSlice(buf, response, Min(Len(buf), Len(response)))

\* lines 145-152: the result stored in Done
DoneResult(buf, response, result) ==
    IF result.ok THEN Ok(CopyLen(buf, response)) ELSE Err(result.v)

\* lines 145-152: the buffer after the match
DoneBuf(buf, response, result) ==
    IF result.ok THEN CopyFromSlice(buf, response, CopyLen(buf, response)) ELSE buf

\* a slip: the runner is woken but the request is not put in the state
do_ioctl_unset(kind, cmd, iface, buf) ==
    /\ pcI = "idle"
    /\ nextReq <= MaxReq
    /\ wake_runner
    /\ pcI' = "issued"
    /\ bufI' = buf
    /\ nextReq' = nextReq + 1
    /\ hist' = Enter(hist, nextReq, "Pending")
    /\ stored' = NotStored
    /\ last' = [op |-> "do_ioctl", pre |-> state.tag, ret |-> NoRet, buf |-> 0]
    /\ UNCHANGED <<state, mem, pcT, held, cur>>

\* a slip: a busy check, the request is only issued when none is outstanding
do_ioctl_busy_check(kind, cmd, iface, buf) ==
    /\ pcI = "idle"
    /\ nextReq <= MaxReq
    /\ IsDone
    /\ state' = Pending(PendingIoctl(buf, kind, cmd, iface))
    /\ wake_runner
    /\ pcI' = "issued"
    /\ bufI' = buf
    /\ cur' = nextReq
    /\ nextReq' = nextReq + 1
    /\ hist' = Enter(Leave(hist, "Overwritten"), nextReq, "Pending")
    /\ stored' = NotStored
    /\ last' = [op |-> "do_ioctl", pre |-> state.tag, ret |-> NoRet, buf |-> 0]
    /\ UNCHANGED <<mem, pcT, held>>

\* a slip: the request is stored but the runner is not woken
do_ioctl_no_wake(kind, cmd, iface, buf) ==
    /\ pcI = "idle"
    /\ nextReq <= MaxReq
    /\ state' = Pending(PendingIoctl(buf, kind, cmd, iface))
    /\ pcI' = "issued"
    /\ bufI' = buf
    /\ cur' = nextReq
    /\ nextReq' = nextReq + 1
    /\ hist' = Enter(Leave(hist, "Overwritten"), nextReq, "Pending")
    /\ stored' = NotStored
    /\ last' = [op |-> "do_ioctl", pre |-> state.tag, ret |-> NoRet, buf |-> 0]
    /\ UNCHANGED <<wakers, woken, mem, pcT, held>>


\* do_ioctl, lines 134-136: the issue step of the first poll
do_ioctl(kind, cmd, iface, buf) ==
    /\ pcI = "idle"
    /\ nextReq <= MaxReq
    /\ state' = Pending(PendingIoctl(buf, kind, cmd, iface))
    /\ wake_runner
    /\ pcI' = "issued"
    /\ bufI' = buf
    /\ cur' = nextReq
    /\ nextReq' = nextReq + 1
    /\ hist' = Enter(Leave(hist, "Overwritten"), nextReq, "Pending")
    /\ stored' = NotStored
    /\ last' = [op |-> "do_ioctl", pre |-> state.tag, ret |-> NoRet, buf |-> 0]
    /\ UNCHANGED <<mem, pcT, held>>

\* a slip: the poll that returns the result also takes it out of the state
wait_complete_take ==
    /\ pcI \in {"idle", "issued", "awaiting", "waiting"}
    /\ woken' = woken \ {Control}
    /\ IF IsDone
       THEN /\ pcI' = "idle"
            /\ state' = Done(Ok(0))
            /\ UNCHANGED wakers
       ELSE /\ register_control(Control)
            /\ pcI' = IF pcI \in {"issued", "awaiting"} THEN "awaiting" ELSE "waiting"
            /\ UNCHANGED state
    /\ last' = [op |-> IF pcI \in {"issued", "awaiting"} THEN "do_ioctl.await"
                                                         ELSE "wait_complete",
                pre |-> state.tag,
                ret |-> IF IsDone THEN state.result ELSE NoRet,
                buf |-> 0]
    /\ UNCHANGED <<mem, bufI, pcT, held, cur, nextReq, hist, stored>>

\* a slip: the waker is registered before the state is looked at
wait_complete_registers_first ==
    /\ pcI \in {"idle", "issued", "awaiting", "waiting"}
    /\ woken' = woken \ {Control}
    /\ register_control(Control)
    /\ pcI' = IF IsDone THEN "idle"
              ELSE IF pcI \in {"issued", "awaiting"} THEN "awaiting" ELSE "waiting"
    /\ last' = [op |-> IF pcI \in {"issued", "awaiting"} THEN "do_ioctl.await"
                                                         ELSE "wait_complete",
                pre |-> state.tag,
                ret |-> IF IsDone THEN state.result ELSE NoRet,
                buf |-> 0]
    /\ UNCHANGED <<state, mem, bufI, pcT, held, cur, nextReq, hist, stored>>

\* one poll of wait_complete by the control task: line 137 of do_ioctl
\* (pcI "issued" or "awaiting") or a call of wait_complete on its own
wait_complete ==
    /\ pcI \in {"idle", "issued", "awaiting", "waiting"}
    /\ woken' = woken \ {Control}
    /\ IF IsDone
       THEN /\ pcI' = "idle"
            /\ UNCHANGED wakers
       ELSE /\ register_control(Control)
            /\ pcI' = IF pcI \in {"issued", "awaiting"} THEN "awaiting" ELSE "waiting"
    /\ last' = [op |-> IF pcI \in {"issued", "awaiting"} THEN "do_ioctl.await"
                                                         ELSE "wait_complete",
                pre |-> state.tag,
                ret |-> IF IsDone THEN state.result ELSE NoRet,
                buf |-> 0]
    /\ UNCHANGED <<state, mem, bufI, pcT, held, cur, nextReq, hist, stored>>

\* a slip: dropping the future resets the state, as a drop guard would
drop_future_cancels ==
    /\ pcI \in {"awaiting", "waiting"}
    /\ pcI' = "idle"
    /\ state' = Done(Ok(0))
    /\ cur' = 0
    /\ hist' = Leave(hist, "Cancelled")
    /\ last' = [op |-> "drop", pre |-> state.tag, ret |-> NoRet, buf |-> 0]
    /\ UNCHANGED <<wakers, mem, woken, bufI, pcT, held, nextReq, stored>>

\* the control task abandons a suspended do_ioctl or wait_complete future
drop_future ==
    /\ pcI \in {"awaiting", "waiting"}
    /\ pcI' = "idle"
    /\ last' = [op |-> "drop", pre |-> state.tag, ret |-> NoRet, buf |-> 0]
    /\ UNCHANGED <<state, wakers, mem, woken, bufI, pcT, held, cur, nextReq, hist, stored>>

\* a slip: the request is returned but the state is left Pending
wait_pending_unset ==
    /\ AtPollBoundary
    /\ woken' = woken \ {Runner}
    /\ IF IsPending
       THEN /\ pcT' = "holding"
            /\ held' = Append(held, cur)
            /\ hist' = Enter(hist, cur, "Sent")
            /\ UNCHANGED wakers
       ELSE /\ register_runner(Runner)
            /\ pcT' = "waiting"
            /\ UNCHANGED <<hist, held>>
    /\ last' = [op |-> "wait_pending", pre |-> state.tag,
                ret |-> IF IsPending THEN state.p ELSE NoRet,
                buf |-> 0]
    /\ UNCHANGED <<state, mem, pcI, bufI, cur, nextReq, stored>>

\* one poll of wait_pending by the runner task
wait_pending ==
    /\ AtPollBoundary
    /\ woken' = woken \ {Runner}
    /\ IF IsPending
       THEN /\ state' = Sent(state.p.buf)
            /\ pcT' = "holding"
            /\ held' = Append(held, cur)
            /\ hist' = Enter(hist, cur, "Sent")
            /\ UNCHANGED wakers
       ELSE /\ register_runner(Runner)
            /\ pcT' = "waiting"
            /\ UNCHANGED <<state, hist, held>>
    /\ last' = [op |-> "wait_pending", pre |-> state.tag,
                ret |-> IF IsPending THEN state.p ELSE NoRet,
                buf |-> 0]
    /\ UNCHANGED <<mem, pcI, bufI, cur, nextReq, stored>>

\* a slip: only a request already picked up by the runner is reset
cancel_ioctl_sent_only ==
    /\ AtPollBoundary
    /\ state' = IF IsSent THEN Done(Ok(0)) ELSE state
    /\ cur' = IF state'.tag = "Done" THEN 0 ELSE cur
    /\ hist' = Leave(hist, "Cancelled")
    /\ last' = [op |-> "cancel_ioctl", pre |-> state.tag, ret |-> NoRet, buf |-> 0]
    /\ UNCHANGED <<wakers, mem, woken, pcI, bufI, pcT, held, nextReq, stored>>

\* a slip: cancel also wakes the task suspended in wait_complete
cancel_ioctl_wakes ==
    /\ AtPollBoundary
    /\ state' = Done(Ok(0))
    /\ wake_control
    /\ cur' = IF state'.tag = "Done" THEN 0 ELSE cur
    /\ hist' = Leave(hist, "Cancelled")
    /\ last' = [op |-> "cancel_ioctl", pre |-> state.tag, ret |-> NoRet, buf |-> 0]
    /\ UNCHANGED <<mem, pcI, bufI, pcT, held, nextReq, stored>>

\* cancel_ioctl
cancel_ioctl ==
    /\ AtPollBoundary
    /\ state' = Done(Ok(0))
    /\ cur' = IF state'.tag = "Done" THEN 0 ELSE cur
    /\ hist' = Leave(hist, "Cancelled")
    /\ last' = [op |-> "cancel_ioctl", pre |-> state.tag, ret |-> NoRet, buf |-> 0]
    /\ UNCHANGED <<wakers, mem, woken, pcI, bufI, pcT, held, nextReq, stored>>

\* a slip: the stale-completion check is missing and the outcome is stored
\* whatever the state is
ioctl_done_unchecked(response, result) ==
    /\ AtPollBoundary
    /\ state' = Done(IF result.ok THEN Ok(0) ELSE Err(result.v))
    /\ wake_control
    /\ pcT' = "idle"
    /\ held' = IF held = <<>> THEN held ELSE Tail(held)
    /\ cur' = 0
    /\ hist' = Leave(hist, "Done")
    /\ last' = [op |-> "ioctl_done", pre |-> state.tag, ret |-> NoRet, buf |-> 0]
    /\ UNCHANGED <<mem, pcI, bufI, nextReq, stored>>

\* ioctl_done
ioctl_done(response, result) ==
    /\ AtPollBoundary
    /\ IF IsSent
       THEN /\ mem' = [mem EXCEPT ![state.buf] = DoneBuf(@, response, result)]
            /\ state' = Done(DoneResult(mem[state.buf], response, result))
            /\ wake_control
            /\ cur' = 0
            /\ hist' = Enter(hist, cur, "Done")
            /\ stored' = [req |-> cur, result |-> state'.result,
                          buf |-> state.buf,
                          prefix |-> IF result.ok
                                       THEN Fitting(response, Len(mem[state.buf]))
                                       ELSE <<>>,
                          for |-> Answered]
       ELSE UNCHANGED <<state, wakers, mem, woken, cur, hist, stored>>
    /\ pcT' = "idle"
    /\ held' = IF held = <<>> THEN held ELSE Tail(held)
    /\ last' = [op |-> "ioctl_done", pre |-> state.tag, ret |-> NoRet,
                buf |-> IF IsSent THEN state.buf ELSE 0]
    /\ UNCHANGED <<pcI, bufI, nextReq>>

Next ==
    \/ \E c \in Calls, buf \in Bufs : do_ioctl(c[1], c[2], c[3], buf)
    \/ wait_complete
    \/ drop_future
    \/ wait_pending
    \/ cancel_ioctl
    \/ \E response \in Responses, result \in Outcomes : ioctl_done(response, result)

Spec == Init /\ [][Next]_vars

(* ------------------- the handshake, used as intended ------------------- *)

\* One control task that calls do_ioctl again only after its previous call
\* returned, and never abandons a call.
ControlStep ==
    \/ \E c \in Calls, buf \in Bufs : do_ioctl(c[1], c[2], c[3], buf)
    \/ pcI \in {"issued", "awaiting"} /\ wait_complete

\* One runner task in a loop: wait_pending until it returns a request, then
\* ioctl_done with the outcome of the transfer.
RunnerStep ==
    \/ pcT \in {"idle", "waiting"} /\ wait_pending
    \/ pcT = "holding" /\ \E response \in Responses, result \in Outcomes :
                              ioctl_done(response, result)

Handshake == Init /\ [][ControlStep \/ RunnerStep]_vars

\* The executor polls a task that is running (it has not suspended) and a
\* suspended task whose waker was invoked; a suspended task whose waker was
\* not invoked need never be polled again.
ControlRuns ==
    /\ pcI = "issued" \/ (pcI = "awaiting" /\ Control \in woken)
    /\ wait_complete

RunnerRuns ==
    \/ (pcT = "idle" \/ (pcT = "waiting" /\ Runner \in woken)) /\ wait_pending
    \/ pcT = "holding" /\ \E response \in Responses, result \in Outcomes :
                              ioctl_done(response, result)

FairHandshake == Handshake /\ WF_vars(ControlRuns) /\ WF_vars(RunnerRuns)

(* ---------------------- status-code conversions ------------------------ *)

\* the range of i32
I32Max == 2147483647
I32Min == -I32Max - 1

\* status codes converted: those around 0 and those at the ends of i32
StatusRange == 8
Statuses ==
    (-StatusRange .. StatusRange) \cup {I32Min, I32Min + 1, I32Max - 1, I32Max}

\* IoctlError::Status(n)
Status(n) == [n |-> n]

\* a slip: only positive status codes are kept
IoctlError_from_positive(status) ==
    IF status > 0 THEN Status(status) ELSE Status(I32Max)

\* a slip: the status code is wrapped without looking at it
IoctlError_from_unchecked(status) == Status(status)

\* impl From<i32> for IoctlError: NonZeroI32::new(status) is None for 0 only
IoctlError_from(status) ==
    IF status # 0 THEN Status(status) ELSE Status(I32Max)

\* impl From<IoctlError> for i32: n.get()
i32_from(e) == e.n

\* the runner task, holding a request, converts the status code of the
\* transfer to an IoctlError ...
error_from(status) ==
    /\ AtPollBoundary
    /\ pcT = "holding"
    /\ last' = [op |-> "IoctlError::from", pre |-> state.tag,
                ret |-> IoctlError_from(status), buf |-> 0, arg |-> status]
    /\ UNCHANGED <<state, wakers, mem, woken, pcI, bufI, pcT, held,
                   cur, nextReq, hist, stored>>

\* ... and converts the IoctlError back
error_into ==
    /\ last.op = "IoctlError::from"
    /\ last' = [op |-> "i32::from", pre |-> state.tag,
                ret |-> i32_from(last.ret), buf |-> 0, arg |-> last.arg,
                err |-> last.ret]
    /\ UNCHANGED <<state, wakers, mem, woken, pcI, bufI, pcT, held,
                   cur, nextReq, hist, stored>>

\* The conversions at work: the runner task turns the status code of a
\* failed transfer into an IoctlError and hands it to ioctl_done; the
\* control task calls do_ioctl and awaits it.
StatusStep ==
    \/ \E status \in Statuses : error_from(status)
    \/ error_into
    \/ \E c \in Calls, buf \in Bufs : do_ioctl(c[1], c[2], c[3], buf)
    \/ pcI \in {"issued", "awaiting"} /\ wait_complete
    \/ pcT \in {"idle", "waiting"} /\ wait_pending
    \/ /\ pcT = "holding" /\ last.op = "IoctlError::from"
       /\ \E response \in Responses : ioctl_done(response, Err(i32_from(last.ret)))

StatusSpec == Init /\ [][StatusStep]_vars

(* =============================== claims ================================ *)

\* the steps of the program, whatever their arguments (the first conjunct
\* follows from the second and only spares its evaluation on other steps)
Issues ==
    /\ last'.op = "do_ioctl"
    /\ \E c \in Calls, buf \in Bufs : do_ioctl(c[1], c[2], c[3], buf)
Completes ==
    /\ last'.op = "ioctl_done"
    /\ \E response \in Responses, result \in Outcomes : ioctl_done(response, result)

\* C1: ioctl_done with a success outcome in state Sent{buf}, for a buffer of
\* length L and a response of length R: the state becomes Done{Ok(min(L,R))},
\* the first min(L,R) bytes of the buffer are those of the response, and the
\* other bytes of the buffer keep their values.
C1_SuccessCopiesPrefix ==
    [][(IsSent /\ Completes) =>
         \A response \in Responses :
            ioctl_done(response, OkUnit) =>
            LET b == state.buf
                L == Len(mem[b])
                R == Len(response)
                n == IF L <= R THEN L ELSE R
            IN  /\ state' = Done(Ok(n))
                /\ Len(mem'[b]) = L
                /\ \A i \in 1..n : mem'[b][i] = response[i]
                /\ \A i \in (n + 1)..L : mem'[b][i] = mem[b][i]
                /\ \A o \in Bufs \ {b} : mem'[o] = mem[o]]_vars

\* C1 witness: a success completion has just copied a one-byte response into
\* a two-byte buffer whose second byte differs from it (L > R)
C1_Witness ==
    /\ last.op = "ioctl_done" /\ last.pre = "Sent"
    /\ state = Done(Ok(1))
    /\ Len(mem[last.buf]) = 2
    /\ mem[last.buf][1] # mem[last.buf][2]

\* C2: ioctl_done in a state other than Sent, with any response and outcome,
\* returns and changes neither the transfer state, nor a buffer, nor a wake
\* slot, and wakes no task.
C2_StaleDoneIgnored ==
    [][(~IsSent /\ Completes) => UNCHANGED <<state, mem, wakers, woken>>]_vars

\* C2 witness: ioctl_done has just run while a request was Pending and the
\* control task was registered in its wake slot
C2_Witness ==
    /\ last.op = "ioctl_done" /\ last.pre = "Pending"
    /\ IsPending
    /\ wakers.control = Control
    /\ Control \notin woken

\* C3: cancel_ioctl in any state sets the state to Done{Ok(0)}; and a request
\* that was Pending when cancel_ioctl ran is never returned by a later
\* wait_pending.
C3_CancelResets ==
    [][/\ cancel_ioctl => state' = Done(Ok(0))
       /\ (wait_pending /\ last'.ret # NoRet) =>
              /\ cur \in Reqs
              /\ \A i \in DOMAIN hist[cur] : hist[cur][i] # "Cancelled"
       /\ \A r \in Reqs :
              hist[r] = <<"Pending", "Cancelled">> => hist'[r] = hist[r]]_vars

\* C3 witness: request 1 was cancelled while Pending, and wait_pending has
\* since returned the descriptor of the request issued after it
C3_Witness ==
    /\ hist[1] = <<"Pending", "Cancelled">>
    /\ last.op = "wait_pending" /\ last.ret # NoRet
    /\ cur = 2

\* C4: ioctl_done with outcome Err(e) in state Sent{buf}: the state becomes
\* Done{Err(e)} with the same e, no buffer byte changes, and the poll of
\* wait_complete that follows returns Err(e).
C4_FailureStoresError ==
    [][/\ (IsSent /\ Completes) =>
            \A response \in Responses, e \in ErrCodes :
                ioctl_done(response, Err(e)) =>
                    /\ state' = Done(Err(e))
                    /\ mem' = mem
       /\ \A e \in ErrCodes :
            (/\ last.op = "ioctl_done" /\ last.pre = "Sent"
             /\ state = Done(Err(e))
             /\ wait_complete) =>
                /\ last'.ret = Err(e)
                /\ pcI' = "idle"]_vars

\* C4 witness: the control task's do_ioctl has just returned Err(5), the
\* error ioctl_done stored for its request
C4_Witness ==
    /\ last.op = "do_ioctl.await"
    /\ last.ret = Err(5)
    /\ stored.req = reqI /\ stored.result = Err(5)

\* C5: in the handshake (one control task that waits for each call to
\* return, one runner, no cancel) the value do_ioctl returns is the result
\* ioctl_done stored for that same request, and on return the buffer of the
\* call holds the part of the response that fits it.
C5_ReturnsOwnResult ==
    (last.op = "do_ioctl.await" /\ last.ret # NoRet) =>
        /\ stored.req = reqI
        /\ last.ret = stored.result
        /\ stored.buf = bufI
        /\ last.ret.ok =>
              /\ last.ret.v = Len(stored.prefix)
              /\ SubSeq(mem[bufI], 1, last.ret.v) = stored.prefix

\* C5 witness: the second do_ioctl call has returned Ok(1) for a two-byte
\* buffer that now starts with the response byte 9
C5_Witness ==
    /\ last.op = "do_ioctl.await" /\ last.ret = Ok(1)
    /\ reqI = 2 /\ bufI = 2
    /\ mem[bufI][1] = 9

\* C6: in the handshake under the executor's fairness, every do_ioctl call
\* returns.
C6_EveryCallReturns == (pcI # "idle") ~> (pcI = "idle")

\* C6 witness: a do_ioctl call that had suspended and was woken by
\* ioctl_done has returned
C6_Witness ==
    /\ last.op = "do_ioctl.await" /\ last.ret # NoRet
    /\ pcI = "idle"
    /\ wakers.control = None
    /\ stored.req = reqI

\* C7 as stated: issue, observe-pending and complete happen in that order for
\* every request: ioctl_done takes effect only on a request wait_pending has
\* returned, wait_pending returns only a request that was issued, and the
\* state holding a request never becomes Done unless the request has been
\* Pending and then Sent.
C7_NoStepSkipped ==
    [][/\ (IsSent /\ Completes) =>
              cur \in Reqs /\ hist[cur] = <<"Pending", "Sent">>
       /\ (wait_pending /\ last'.ret # NoRet) =>
              /\ cur \in Reqs /\ hist[cur] = <<"Pending">>
              /\ cur = reqI /\ last'.ret.buf = bufI
       /\ (cur \in Reqs /\ state'.tag = "Done") =>
              hist[cur] = <<"Pending", "Sent">>]_vars

\* C7 amended: as C7, but the state holding a request becomes Done without
\* the request having been Sent when, and only when, cancel_ioctl runs while
\* it is Pending.
C7_NoStepSkippedButByCancel ==
    [][/\ (IsSent /\ Completes) =>
              cur \in Reqs /\ hist[cur] = <<"Pending", "Sent">>
       /\ (wait_pending /\ last'.ret # NoRet) =>
              /\ cur \in Reqs /\ hist[cur] = <<"Pending">>
              /\ cur = reqI /\ last'.ret.buf = bufI
       /\ (cur \in Reqs /\ state'.tag = "Done") =>
              \/ hist[cur] = <<"Pending", "Sent">>
              \/ hist[cur] = <<"Pending">> /\ cancel_ioctl
       /\ \A r \in Reqs :
              hist'[r] # hist[r] /\ hist'[r][Len(hist'[r])] = "Done" =>
                  hist[r] = <<"Pending", "Sent">>]_vars

\* C7 witness: request 1 was issued, returned by wait_pending and completed,
\* and request 2 was cancelled while Pending
C7_Witness ==
    /\ hist[1] = <<"Pending", "Sent", "Done">>
    /\ hist[2] = <<"Pending", "Cancelled">>
    /\ last.op = "cancel_ioctl"

\* C8 as stated: the transfer state changes only from Done to Pending by
\* issue, from Pending to Sent by observe-pending, from Sent to Done by
\* complete, and from any state to Done by cancel.
C8_OnlyListedSteps ==
    [][state' # state =>
          \/ state.tag = "Done" /\ state'.tag = "Pending" /\ Issues
          \/ state.tag = "Pending" /\ state'.tag = "Sent" /\ wait_pending
          \/ state.tag = "Sent" /\ state'.tag = "Done" /\ Completes
          \/ state'.tag = "Done" /\ cancel_ioctl]_vars

\* C8 amended: the transfer state changes only from any state (Done,
\* Pending or Sent) to Pending by issue, from Pending to Sent by
\* observe-pending, from Sent to Done by complete, and from any state to
\* Done by cancel.
C8_OnlyListedStepsIssueAnywhere ==
    [][state' # state =>
          \/ state'.tag = "Pending" /\ Issues
          \/ state.tag = "Pending" /\ state'.tag = "Sent" /\ wait_pending
          \/ state.tag = "Sent" /\ state'.tag = "Done" /\ Completes
          \/ state'.tag = "Done" /\ cancel_ioctl]_vars

\* C8 witness: do_ioctl has just replaced a Sent request by a Pending one
C8_Witness ==
    /\ last.op = "do_ioctl" /\ last.pre = "Sent"
    /\ IsPending
    /\ hist[1] = <<"Pending", "Sent", "Overwritten">>

\* C9: the issue step of do_ioctl can be taken in every state, Done, Pending
\* or Sent; it sets the state to Pending with exactly the kind, cmd, iface
\* and buf passed in, empties the runner wake slot and invokes the waker it
\* held, and leaves the control wake slot and the control task's wake-up
\* flag as they were.
C9_IssueOverwrites ==
    [][/\ (pcI = "idle" /\ nextReq <= MaxReq) =>
            \A c \in Calls, buf \in Bufs : ENABLED do_ioctl(c[1], c[2], c[3], buf)
       /\ Issues => \A c \in Calls, buf \in Bufs :
            do_ioctl(c[1], c[2], c[3], buf) =>
                 /\ state'.tag = "Pending"
                 /\ state'.p.kind = c[1] /\ state'.p.cmd = c[2]
                 /\ state'.p.iface = c[3] /\ state'.p.buf = buf
                 /\ wakers'.runner = None
                 /\ woken' = woken \cup (IF wakers.runner = None THEN {}
                                                                ELSE {wakers.runner})
                 /\ wakers'.control = wakers.control]_vars

\* C9 witness: do_ioctl has just been issued over a Sent request while the
\* runner was registered: the runner is woken, its slot empty, and the
\* control slot still holds the waker registered by the abandoned call
C9_Witness ==
    /\ last.op = "do_ioctl" /\ last.pre = "Sent"
    /\ Runner \in woken
    /\ wakers = [control |-> Control, runner |-> None]

\* C10: one poll of wait_pending: in state Pending{d} it sets the state to
\* Sent{d.buf} and returns d, the descriptor that was issued; in state Done
\* or Sent it leaves the state unchanged, registers the runner in the runner
\* wake slot, returns nothing, and leaves the control wake slot unchanged.
C10_WaitPendingPoll ==
    [][wait_pending =>
          IF IsPending
          THEN /\ state' = Sent(state.p.buf)
               /\ last'.ret = state.p
               /\ last'.ret.buf = bufI
               /\ pcT' = "holding"
          ELSE /\ state' = state
               /\ wakers'.runner = Runner
               /\ wakers'.control = wakers.control
               /\ last'.ret = NoRet
               /\ pcT' = "waiting"]_vars

\* C10 witness: wait_pending returned request 1 and the next poll, with the
\* state Sent, has suspended with the runner registered
C10_Witness ==
    /\ last.op = "wait_pending" /\ last.pre = "Sent" /\ last.ret = NoRet
    /\ IsSent /\ cur = 1 /\ hist[1] = <<"Pending", "Sent">>
    /\ wakers.runner = Runner /\ pcT = "waiting"

\* C11: one poll of wait_complete: in state Done{result} it returns that
\* result and changes neither the state nor any wake slot, so that a poll
\* right after a poll that returned returns the same result; in state
\* Pending or Sent it leaves the state unchanged, registers the caller in
\* the control wake slot, leaves the runner wake slot alone and stays
\* suspended.
C11_WaitCompletePoll ==
    [][wait_complete =>
          /\ IF IsDone
             THEN /\ last'.ret = state.result
                  /\ state' = state
                  /\ wakers' = wakers
                  /\ pcI' = "idle"
             ELSE /\ last'.ret = NoRet
                  /\ state' = state
                  /\ wakers'.control = Control
                  /\ wakers'.runner = wakers.runner
                  /\ pcI' \in {"awaiting", "waiting"}
          /\ (last.op \in {"do_ioctl.await", "wait_complete"} /\ last.ret # NoRet)
                => last'.ret = last.ret]_vars

\* C11 witness: after do_ioctl returned the failure of request 1, a second
\* poll of wait_complete returned it again, the runner still registered
C11_Witness ==
    /\ last.op = "wait_complete" /\ last.pre = "Done" /\ last.ret = Err(5)
    /\ stored.req = 1 /\ state = Done(Err(5))
    /\ wakers = [control |-> None, runner |-> Runner]

\* the control task is suspended in a do_ioctl call whose request was cancelled
CancelledSuspended ==
    /\ pcI = "awaiting"
    /\ hist[reqI] # <<>>
    /\ hist[reqI][Len(hist[reqI])] = "Cancelled"

\* C12: cancel_ioctl triggers no wake slot: it leaves both wake slots and
\* the set of woken tasks as they were; while the control task is suspended
\* in a do_ioctl call whose request was cancelled, no step wakes it, and a
\* late ioctl_done for the cancelled request changes neither state, wake
\* slots nor woken tasks; when that task is polled all the same, and when
\* wait_complete is polled right after a cancel, the poll returns Ok(0).
C12_CancelWakesNobody ==
    [][/\ cancel_ioctl => UNCHANGED <<wakers, woken>>
       /\ CancelledSuspended =>
             /\ state = Done(Ok(0))
             /\ Control \in woken' => Control \in woken
             /\ Completes => UNCHANGED <<state, wakers, woken, mem>>
             /\ wait_complete => (last'.ret = Ok(0) /\ pcI' = "idle")
       /\ (last.op = "cancel_ioctl" /\ wait_complete) => last'.ret = Ok(0)]_vars

\* C12 witness: request 1 was cancelled in Sent while its issuer was
\* suspended; the late ioctl_done found Done and the issuer, still
\* registered, has not been woken
C12_Witness ==
    /\ last.op = "ioctl_done" /\ last.pre = "Done"
    /\ CancelledSuspended /\ reqI = 1
    /\ hist[1] = <<"Pending", "Sent", "Cancelled">>
    /\ wakers.control = Control /\ Control \notin woken
    /\ state = Done(Ok(0))

\* the request in the state belongs to a do_ioctl future that was dropped
Abandoned == pcI = "idle" /\ cur # 0 /\ cur = reqI

\* C13: dropping a suspended do_ioctl future cancels nothing: the drop
\* leaves state, buffers, wake slots and woken tasks unchanged; an abandoned
\* request left Pending is returned, with its buffer, by the next
\* wait_pending, and for an abandoned request left Sent the next ioctl_done
\* still writes its buffer and sets the state to Done; the state goes from
\* Pending or Sent to Done only by ioctl_done in Sent or by cancel_ioctl.
C13_DropCancelsNothing ==
    [][/\ drop_future => UNCHANGED <<state, mem, wakers, woken, cur, hist>>
       /\ (Abandoned /\ IsPending /\ wait_pending) =>
             /\ last'.ret = state.p
             /\ last'.ret.buf = bufI
             /\ state' = Sent(bufI)
             /\ hist'[reqI] = <<"Pending", "Sent">>
       /\ (Abandoned /\ IsSent /\ Completes) =>
             /\ state' = Done(stored'.result)
             /\ stored'.req = reqI /\ stored'.buf = bufI
             /\ stored'.result.ok =>
                   /\ stored'.result.v = Len(stored'.prefix)
                   /\ SubSeq(mem'[bufI], 1, Len(stored'.prefix)) = stored'.prefix
       /\ (~IsDone /\ state'.tag = "Done") =>
             \/ cancel_ioctl
             \/ IsSent /\ Completes]_vars

\* C13 witness: the future of request 1 was dropped while Sent, and the
\* ioctl_done that came later wrote two bytes into its buffer
C13_Witness ==
    /\ last.op = "ioctl_done" /\ last.pre = "Sent"
    /\ pcI = "idle" /\ reqI = 1 /\ stored.req = 1
    /\ hist[1] = <<"Pending", "Sent", "Done">>
    /\ state = Done(Ok(2)) /\ mem[bufI] = <<9, 0>>

\* C14: status round trip: for every nonzero i32 value v, converting v to
\* an IoctlError and back yields v, and no other nonzero value converts to
\* the same IoctlError.
C14_StatusRoundTrip ==
    (last.op = "i32::from" /\ last.arg # 0) =>
        /\ last.ret = last.arg
        /\ last.err = IoctlError_from(last.arg)
        /\ \A w \in Statuses \ {0, last.arg} : IoctlError_from(w) # last.err

\* C14 witness: the most negative i32 came back from the round trip
C14_Witness ==
    /\ last.op = "i32::from" /\ last.arg = I32Min /\ last.ret = I32Min
    /\ last.err = Status(I32Min)

\* C15: converting 0 to an IoctlError yields the error that carries
\* i32::MAX = 2^31 - 1, so that every IoctlError a conversion yields, and
\* every Err result stored in Done, carries a nonzero status code; the
\* fallback error converts back to i32::MAX, not to 0.
C15_ZeroFallsBack ==
    /\ last.op = "IoctlError::from" =>
          /\ last.ret.n # 0
          /\ last.arg = 0 => last.ret = Status(I32Max)
    /\ (last.op = "i32::from" /\ last.arg = 0) =>
          /\ last.err = Status(I32Max)
          /\ last.ret = I32Max
          /\ last.ret # 0
    /\ (IsDone /\ ~state.result.ok) => state.result.v # 0

\* C15 witness: 0 was converted, the runner passed the error to ioctl_done
\* and Done holds the fallback status code
C15_Witness ==
    /\ last.op = "ioctl_done" /\ last.pre = "Sent"
    /\ state = Done(Err(I32Max))
    /\ stored.result = Err(I32Max)

\* C16: a fresh instance is in state Done{Ok(0)} with both wake slots empty,
\* and as long as no request has been issued the state stays Done{Ok(0)}, a
\* poll of wait_complete returns Ok(0) at once without touching the wake
\* slots, and a poll of wait_pending returns no descriptor and suspends.
C16_FreshInstance ==
    [][/\ last.op = "new" =>
             /\ state = Done(Ok(0))
             /\ wakers = [control |-> None, runner |-> None]
       /\ nextReq = 1 =>
             /\ state = Done(Ok(0))
             /\ wait_complete =>
                   (last'.ret = Ok(0) /\ pcI' = "idle" /\ wakers' = wakers)
             /\ wait_pending =>
                   (last'.ret = NoRet /\ pcT' = "waiting" /\ state' = state)]_vars

\* C16 witness: before any issue, wait_pending has suspended and then
\* wait_complete has returned Ok(0)
C16_Witness ==
    /\ nextReq = 1 /\ hist = [r \in Reqs |-> <<>>]
    /\ pcT = "waiting" /\ wakers = [control |-> None, runner |-> Runner]
    /\ last.op = "wait_complete" /\ last.ret = Ok(0) /\ pcI = "idle"

\* C17: an ioctl_done that finds Sent, with a success or a failure outcome,
\* leaves the state Done, empties the control wake slot and wakes the waker
\* it held, and leaves the runner wake slot unchanged; no other step wakes
\* the control task or empties the control wake slot, so that a control
\* task that was woken finds the state already Done.
C17_DoneWakesControl ==
    [][/\ (IsSent /\ Completes) =>
             /\ state'.tag = "Done"
             /\ wakers'.control = None
             /\ woken' = IF wakers.control = None THEN woken
                                                  ELSE woken \cup {wakers.control}
             /\ wakers'.runner = wakers.runner
       /\ (Control \in woken' /\ Control \notin woken) =>
             (IsSent /\ Completes /\ state'.tag = "Done")
       /\ (wakers.control # None /\ wakers'.control = None) =>
             (IsSent /\ Completes)]_vars

\* C17 witness: ioctl_done with a failure found Sent: the control task was
\* woken, its slot is empty, and the runner is still registered
C17_Witness ==
    /\ last.op = "ioctl_done" /\ last.pre = "Sent"
    /\ state = Done(Err(-1))
    /\ Control \in woken /\ pcI = "awaiting"
    /\ wakers = [control |-> None, runner |-> Runner]

\* how many times wait_pending returned the request with phase trace h
Returned(h) == Cardinality({i \in DOMAIN h : h[i] = "Sent"})

\* C18: under any sequence of do_ioctl, wait_pending, ioctl_done and
\* cancel_ioctl, wait_pending returns the descriptor of each issued request
\* at most once: a poll that returns a descriptor returns the one of the
\* latest issued request, which is Pending and was not returned before, so
\* that after a return further polls suspend until a new issue; a request
\* overwritten by a later issue while Pending is never returned.
C18_ReturnedAtMostOnce ==
    [][/\ (wait_pending /\ last'.ret # NoRet) =>
             /\ cur = reqI
             /\ hist[reqI] = <<"Pending">>
             /\ last'.ret.buf = bufI
             /\ \A r \in Reqs \ {reqI} : hist'[r] = hist[r]
       /\ \A r \in Reqs :
             /\ Returned(hist'[r]) <= 1
             /\ hist[r] = <<"Pending", "Overwritten">> => hist'[r] = hist[r]]_vars

\* C18 witness: request 1 was overwritten while Pending, request 2 was
\* returned once and the next poll of wait_pending has suspended
C18_Witness ==
    /\ hist = <<<<"Pending", "Overwritten">>, <<"Pending", "Sent">>>>
    /\ last.op = "wait_pending" /\ last.pre = "Sent" /\ last.ret = NoRet
    /\ pcT = "waiting" /\ held = <<2>>

\* C19: no cross-request delivery: when each call of ioctl_done carries the
\* response of a request the runner got from wait_pending before, the call
\* that writes the buffer of a request and stores its result in Done
\* carries the response of that very request, and the result do_ioctl
\* returns to the issuer of a request comes from the response to it; the
\* late response of a cancelled or abandoned request is discarded.
C19_NoCrossDelivery ==
    /\ (stored.req # 0 /\ stored.for # 0) => stored.for = stored.req
    /\ (last.op = "do_ioctl.await" /\ last.ret # NoRet /\ stored.req = reqI
           /\ stored.for # 0) => stored.for = reqI

\* no request was taken out of the state by cancel_ioctl so far
NeverCancelled == \A r \in Reqs : \A i \in DOMAIN hist[r] : hist[r][i] # "Cancelled"

\* C20: no lost wake-up, each poll and each operation being atomic: in
\* every reachable state where the runner wake slot holds a registered
\* waker that was not invoked the state is not Pending; and as long as
\* cancel_ioctl has reset no request, in every reachable state where the
\* control wake slot holds a registered waker that was not invoked the
\* state is not Done.
C20_NoLostWakeup ==
    /\ wakers.runner # None => ~IsPending
    /\ (NeverCancelled /\ wakers.control # None) => ~IsDone

\* C20 witness: both tasks are suspended with their wakers registered while
\* request 1 is Sent, and cancel_ioctl has never been called
C20_Witness ==
    /\ wakers = [control |-> Control, runner |-> Runner]
    /\ woken = {}
    /\ IsSent /\ cur = 1 /\ hist = <<<<"Pending", "Sent">>, <<>>>>
    /\ pcI = "awaiting" /\ pcT = "waiting"

====
